---- MODULE Spec2Model ----
(***************************************************************************)
(* PyADB (src/app.py): the AdbGui session - one QProcess running adb, the  *)
(* device list widget, the selected device, the temporary directory of a   *)
(* bundle install - and the event handlers that drive it.                  *)
(*                                                                         *)
(* Text is modelled as sequences of one-character strings, so that the     *)
(* Python string operations of the source (strip, split, splitlines, `in`, *)
(* sorted, Path.suffix, rglob's name match) are computed, not assumed.     *)
(***************************************************************************)
EXTENDS Integers, Sequences, FiniteSets, TLC

(***************************************************************************)
(* Python string operations used by the source.                            *)
(***************************************************************************)

\* str.isspace() on the characters the model uses.
IsSpace(c) == c \in {" ", "\n", "\t", "\r"}

\* The line boundaries str.splitlines() recognises, among the model's characters.
IsLineBreak(c) == c \in {"\n", "\r"}

DropFirst(s, n) == SubSeq(s, n + 1, Len(s))

TakeFirst(s, n) == SubSeq(s, 1, n)

RECURSIVE LStrip(_)
LStrip(s) ==
    IF s = <<>> THEN <<>>
    ELSE IF IsSpace(Head(s)) THEN LStrip(Tail(s)) ELSE s

RECURSIVE RStrip(_)
RStrip(s) ==
    IF s = <<>> THEN <<>>
    ELSE IF IsSpace(s[Len(s)]) THEN RStrip(TakeFirst(s, Len(s) - 1)) ELSE s

\* str.strip()
Strip(s) == RStrip(LStrip(s))

\* Index of the first character of s satisfying the test, Len(s) + 1 when none.
RECURSIVE FirstBreak(_, _)
FirstBreak(s, i) ==
    IF i > Len(s) THEN i
    ELSE IF IsLineBreak(s[i]) THEN i ELSE FirstBreak(s, i + 1)

RECURSIVE FirstSpace(_, _)
FirstSpace(s, i) ==
    IF i > Len(s) THEN i
    ELSE IF IsSpace(s[i]) THEN i ELSE FirstSpace(s, i + 1)

\* str.splitlines(): "\r\n" is one boundary; no empty last line after a final boundary.
RECURSIVE SplitLines(_)
SplitLines(s) ==
    IF s = <<>> THEN <<>>
    ELSE LET i == FirstBreak(s, 1)
             w == IF i < Len(s) /\ s[i] = "\r" /\ s[i + 1] = "\n" THEN 2 ELSE 1
         IN  IF i > Len(s) THEN <<s>>
             ELSE <<TakeFirst(s, i - 1)>> \o SplitLines(DropFirst(s, i + w - 1))

\* str.split() with no argument: runs of whitespace separate, no empty tokens.
RECURSIVE Split(_)
Split(s) ==
    LET t == LStrip(s)
    IN  IF t = <<>> THEN <<>>
        ELSE LET i == FirstSpace(t, 1)
             IN  <<TakeFirst(t, i - 1)>> \o Split(DropFirst(t, i - 1))

\* `sub in s`
Contains(s, sub) ==
    \E i \in 0..(Len(s) - Len(sub)) : SubSeq(s, i + 1, i + Len(sub)) = sub

EndsWith(s, suf) ==
    /\ Len(s) >= Len(suf)
    /\ DropFirst(s, Len(s) - Len(suf)) = suf

\* The model's characters in code point order.
Ascii ==
    <<" ","$","-",".","/","0","1","2","3","4","5","6","7","8","9",":",
      "A","B","C","D","E","F","G","H","I","J","K","L","M","N","O","P","Q","R",
      "S","T","U","V","W","X","Y","Z","[","\\","]","_",
      "a","b","c","d","e","f","g","h","i","j","k","l","m","n","o","p","q","r",
      "s","t","u","v","w","x","y","z">>

Ord(c) == CHOOSE i \in 1..Len(Ascii) : Ascii[i] = c

UpperCase ==
    <<"A","B","C","D","E","F","G","H","I","J","K","L","M","N","O","P","Q","R",
      "S","T","U","V","W","X","Y","Z">>

LowerCase ==
    <<"a","b","c","d","e","f","g","h","i","j","k","l","m","n","o","p","q","r",
      "s","t","u","v","w","x","y","z">>

LowerChar(c) ==
    IF \E i \in 1..Len(UpperCase) : UpperCase[i] = c
    THEN LowerCase[CHOOSE i \in 1..Len(UpperCase) : UpperCase[i] = c]
    ELSE c

\* str.lower()
Lower(s) == [i \in 1..Len(s) |-> LowerChar(s[i])]

\* s < t for Python strings: by code point, a proper prefix first.
RECURSIVE StrLess(_, _)
StrLess(s, t) ==
    IF t = <<>> THEN FALSE
    ELSE IF s = <<>> THEN TRUE
    ELSE IF Head(s) = Head(t) THEN StrLess(Tail(s), Tail(t))
    ELSE Ord(Head(s)) < Ord(Head(t))

\* sorted(S) for a set of distinct strings.
RECURSIVE Sorted(_)
Sorted(S) ==
    IF S = {} THEN <<>>
    ELSE LET m == CHOOSE x \in S : \A y \in S \ {x} : StrLess(x, y)
         IN  <<m>> \o Sorted(S \ {m})

\* Index of the last occurrence of c in s, 0 when there is none (str.rfind + 1).
RECURSIVE LastIndexOf(_, _)
LastIndexOf(s, c) ==
    IF s = <<>> THEN 0
    ELSE IF s[Len(s)] = c THEN Len(s) ELSE LastIndexOf(TakeFirst(s, Len(s) - 1), c)

\* PurePath.name: the final path component.
PathName(p) == DropFirst(p, LastIndexOf(p, "/"))

\* PurePath.suffix: from the last dot of the name, unless the dot is the
\* name's first or last character.
PathSuffix(p) ==
    LET name == PathName(p)
        i == LastIndexOf(name, ".")
    IN  IF 1 < i /\ i < Len(name) THEN DropFirst(name, i - 1) ELSE <<>>


(***************************************************************************)
(* Literals of the source.                                                 *)
(***************************************************************************)

S_devices == <<"d","e","v","i","c","e","s">>

S_connect == <<"c","o","n","n","e","c","t">>

S_uninstall == <<"u","n","i","n","s","t","a","l","l">>

S_install == <<"i","n","s","t","a","l","l">>

S_install_multiple == <<"i","n","s","t","a","l","l","-","m","u","l","t","i","p","l","e">>

S_dash_s == <<"-","s">>

S_dash_r == <<"-","r">>

S_apk == <<".","a","p","k">>

S_xapk == <<".","x","a","p","k">>

S_apkm == <<".","a","p","k","m">>

\* "List of devices attached"
S_header ==
    <<"L","i","s","t"," ","o","f"," ","d","e","v","i","c","e","s"," ",
      "a","t","t","a","c","h","e","d">>

\* self.current_device = None
None == <<>>

\* self.temp_dir = None, among the numbers of the temporary directories
NoDir == 0

(***************************************************************************)
(* The environment: the host the program runs on, the files the user can   *)
(* name, and what an adb process prints.                                   *)
(***************************************************************************)

\* frozen: sys.frozen; bundled: the adb next to the executable exists;
\* system: shutil.which("adb") finds one; runnable: the adb found can be
\* executed; platform: sys.platform.
Hosts ==
    { [platform |-> "linux", frozen |-> FALSE, bundled |-> FALSE, system |-> TRUE,  runnable |-> TRUE],
      [platform |-> "win32", frozen |-> TRUE,  bundled |-> TRUE,  system |-> FALSE, runnable |-> TRUE],
      [platform |-> "win32", frozen |-> TRUE,  bundled |-> FALSE, system |-> FALSE, runnable |-> FALSE],
      [platform |-> "linux", frozen |-> TRUE,  bundled |-> TRUE,  system |-> FALSE, runnable |-> FALSE] }

\* The files the user can put in apk_input. zip: whether zipfile can read it;
\* entries: the relative paths of the files it extracts.
Files ==
    { [path |-> <<"a",".","a","p","k">>, exists |-> TRUE, zip |-> "none", entries |-> {}],
      [path |-> <<"n",".","a","p","k">>, exists |-> FALSE, zip |-> "none", entries |-> {}],
      [path |-> <<"g",".","z","i","p">>, exists |-> TRUE, zip |-> "ok",
         entries |-> {<<"a",".","a","p","k">>}],
      [path |-> <<"b",".","x","a","p","k">>, exists |-> TRUE, zip |-> "ok",
         entries |-> {<<"l","/","b",".","a","p","k">>, <<"a",".","a","p","k">>, <<"m",".","t","x","t">>}],
      [path |-> <<"D",".","X","A","P","K">>, exists |-> TRUE, zip |-> "ok",
         entries |-> {<<"B",".","A","P","K">>}],
      [path |-> <<"e",".","a","p","k","m">>, exists |-> TRUE, zip |-> "ok",
         entries |-> {<<"m",".","t","x","t">>}],
      [path |-> <<"f",".","x","a","p","k">>, exists |-> TRUE, zip |-> "corrupt", entries |-> {}] }

\* Texts of addr_input and pkg_input.
Addresses == { <<>>, <<" ">>, <<"h",":","5">> }

Packages == { <<>>, <<"c","o","m",".","x">> }

\* What `adb devices` prints on stdout.
Listings ==
    { <<"L","i","s","t"," ","o","f"," ","d","e","v","i","c","e","s"," ","a","t","t","a","c","h","e","d","\n","\n">>,
      <<"L","i","s","t"," ","o","f"," ","d","e","v","i","c","e","s"," ","a","t","t","a","c","h","e","d","\n",
        "A"," ","d","e","v","i","c","e","\n","\n">>,
      <<"L","i","s","t"," ","o","f"," ","d","e","v","i","c","e","s"," ","a","t","t","a","c","h","e","d","\n",
        "A"," ","d","e","v","i","c","e","\n","B"," ","o","f","f","l","i","n","e","\n","\n">> }

\* What the other adb subcommands print: [out |-> stdout, err |-> stderr].
Replies ==
    { [out |-> <<"S","u","c","c","e","s","s","\n">>, err |-> <<>>],
      [out |-> <<>>, err |-> <<"e","r","r","\n">>] }

\* What the processes a handler launches will print.
Worlds == [listing : Listings, reply : Replies]

\* The worlds of a request that runs no `adb devices` differ in the reply
\* alone, and those of a refresh in the listing alone.
ReplyWorlds == {w \in Worlds : w.listing = CHOOSE l \in Listings : TRUE}

ListingWorlds == {w \in Worlds : w.reply = CHOOSE r \in Replies : TRUE}

ExitCodes == {0, 1}

(***************************************************************************)
(* Bounds.                                                                 *)
(***************************************************************************)

\* Temporary directories that may exist at once (mkdtemp never reuses a live name).
MaxDirs == 2

\* The granularity of process output: a read delivers a multiple of this many
\* characters, or all that is left.
ChunkUnit == 7

(***************************************************************************)
(* State.                                                                  *)
(***************************************************************************)

VARIABLES
    host,            \* the host of this run, fixed from the start
    temp_dir,        \* self.temp_dir: NoDir or the number of a temporary directory
    current_device,  \* self.current_device: None or a serial
    devices_list,    \* self.devices_list: the item texts, in order
    selected_row,    \* the selected row of devices_list, 0 when none is selected
    process_state,   \* self.process.state(): "NotRunning", "Starting" or "Running"
    process_args,    \* self.process.arguments()
    process_pid,     \* the OS process self.process is attached to, 0 when none
    process_error,   \* self.process.error(): "UnknownError" or "FailedToStart"
    out_rest,        \* stdout the attached process has yet to deliver
    out_read,        \* stdout the last process started has delivered so far
    err_rest,        \* stderr the attached process has yet to deliver
    os_procs,        \* the adb processes alive on the host: [pid, args]
    disk,            \* the temporary directories that exist on disk
    log,             \* entries the last handler appended to self.log
    cli,             \* records the last handler sent to cli_log
    raised,          \* the exception that escaped the last handler, "none" if none
    event,           \* the event the loop handled last
    closed,          \* the window has had its close event
    close_accepted   \* closeEvent reached event.accept()

vars ==
    << host, temp_dir, current_device, devices_list, selected_row, process_state,
       process_args, process_pid, process_error, out_rest, out_read, err_rest, os_procs, disk, log, cli,
       raised, event, closed, close_accepted >>

\* The state a handler starts from: nothing logged or raised yet.
Cur ==
    [ host |-> host, temp_dir |-> temp_dir, current_device |-> current_device,
      devices_list |-> devices_list, selected_row |-> selected_row,
      process_state |-> process_state, process_args |-> process_args,
      process_pid |-> process_pid, process_error |-> process_error, out_rest |-> out_rest,
      out_read |-> out_read, err_rest |-> err_rest,
      os_procs |-> os_procs, disk |-> disk, log |-> <<>>, cli |-> <<>>,
      raised |-> "none", closed |-> closed, close_accepted |-> close_accepted ]

\* The state a handler leaves.
Commit(s) ==
    /\ host' = s.host
    /\ temp_dir' = s.temp_dir
    /\ current_device' = s.current_device
    /\ devices_list' = s.devices_list
    /\ selected_row' = s.selected_row
    /\ process_state' = s.process_state
    /\ process_args' = s.process_args
    /\ process_pid' = s.process_pid
    /\ process_error' = s.process_error
    /\ out_rest' = s.out_rest
    /\ out_read' = s.out_read
    /\ err_rest' = s.err_rest
    /\ os_procs' = s.os_procs
    /\ disk' = s.disk
    /\ log' = s.log
    /\ cli' = s.cli
    /\ raised' = s.raised
    /\ closed' = s.closed
    /\ close_accepted' = s.close_accepted

(***************************************************************************)
(* Logging.                                                                *)
(***************************************************************************)

\* cli_log(message, level)
cli_log(s, level, msg, arg) ==
    [s EXCEPT !.cli = Append(@, [level |-> level, msg |-> msg, arg |-> arg])]

\* self.append_log(text, cmd, error): the entry's style is error, else cmd, else plain.
append_log(s, text, arg, cmd, error) ==
    [s EXCEPT !.log = Append(@,
        [style |-> IF error THEN "error" ELSE IF cmd THEN "cmd" ELSE "plain",
         text |-> text, arg |-> arg])]

(***************************************************************************)
(* Running adb.                                                            *)
(***************************************************************************)

\* get_adb_path(): the program to start, and what it sends to cli_log.
get_adb_path(h) ==
    LET warn == IF h.frozen /\ ~h.bundled
                THEN <<[level |-> "WARNING", msg |-> "Bundled adb not found, trying system adb", arg |-> <<>>]>>
                ELSE <<>>
    IN  IF h.frozen /\ h.bundled
        THEN [path |-> "bundled",
              cli |-> <<[level |-> "INFO", msg |-> "Using bundled adb", arg |-> <<>>]>>]
        ELSE IF h.system
        THEN [path |-> "system",
              cli |-> warn \o <<[level |-> "INFO", msg |-> "Using system adb", arg |-> <<>>]>>]
        ELSE [path |-> "adb",
              cli |-> warn \o <<[level |-> "ERROR", msg |-> "ADB not found (bundled nor system)", arg |-> <<>>]>>]

\* Whether the host can execute the program get_adb_path returned: the
\* fallback name "adb" is returned only when no adb is on PATH.
Launchable(h, program) == program # "adb" /\ h.runnable

\* BuildCmd without the exemption of devices and connect.
BuildCmdScopingAll(device, args) ==
    IF device # None THEN <<S_dash_s, device>> \o args ELSE args

\* The command line run_adb builds from the request's arguments.
BuildCmd(device, args) ==
    IF device # None /\ args[1] \notin {S_devices, S_connect}
    THEN <<S_dash_s, device>> \o args
    ELSE args

\* A process id no live process has.
FreshPid(procs) ==
    CHOOSE n \in 1..(Cardinality(procs) + 1) : \A p \in procs : p.pid # n

\* QProcess.start on a QProcess that is NotRunning: it takes the arguments,
\* forgets its last error and starts the program. On win32 a program that
\* cannot be started fails at once, elsewhere the failure arrives with the
\* start-up notification.
QProcessLaunch(s, program, arguments, w) ==
    IF ~Launchable(s.host, program)
    THEN IF s.host.platform = "win32"
         THEN [s EXCEPT !.process_args = arguments, !.process_error = "FailedToStart"]
         ELSE [s EXCEPT !.process_args = arguments, !.process_error = "UnknownError",
                        !.process_state = "Starting"]
    ELSE LET pid == FreshPid(s.os_procs)
             script == IF \E i \in 1..Len(arguments) : arguments[i] = S_devices
                       THEN [out |-> w.listing, err |-> <<>>]
                       ELSE w.reply
         IN  [s EXCEPT !.process_args = arguments,
                       !.process_error = "UnknownError",
                       !.process_state = "Starting",
                       !.process_pid = pid,
                       !.os_procs = @ \cup {[pid |-> pid, args |-> arguments]},
                       !.out_rest = script.out,
                       !.out_read = <<>>,
                       !.err_rest = script.err]

\* QProcessStart that starts the program whatever the state of the QProcess.
QProcessStartUnguarded(s, program, arguments, w) ==
    QProcessLaunch(s, program, arguments, w)

\* QProcess.start(program, arguments), as run_adb calls it: a QProcess that
\* is not NotRunning warns ("Process is already running") and returns.
QProcessStart(s, program, arguments, w) ==
    IF s.process_state # "NotRunning" THEN s
    ELSE QProcessLaunch(s, program, arguments, w)

\* AdbGui.run_adb(args)
run_adb(s, args, w) ==
    LET cmd == BuildCmd(s.current_device, args)
        s1 == cli_log(s, "DEBUG", "Executing adb command", cmd)
        s2 == append_log(s1, "$ adb", cmd, TRUE, FALSE)
        adb == get_adb_path(s2.host)
        s3 == [s2 EXCEPT !.cli = @ \o adb.cli]
        s4 == cli_log(s3, "DEBUG", "ADB binary path", <<>>)
    IN  QProcessStart(s4, adb.path, cmd, w)

(***************************************************************************)
(* The device list widget.                                                 *)
(***************************************************************************)

\* on_device_selected that forgets the device when nothing is selected.
on_device_selected_clearing(s) ==
    IF s.selected_row # 0
    THEN LET dev == Split(s.devices_list[s.selected_row])[1]
             s1 == [s EXCEPT !.current_device = dev]
             s2 == cli_log(s1, "INFO", "Device selected", dev)
         IN  append_log(s2, "Selected device", dev, TRUE, FALSE)
    ELSE [s EXCEPT !.current_device = None]

\* AdbGui.on_device_selected(): items is self.devices_list.selectedItems().
on_device_selected(s) ==
    IF s.selected_row # 0
    THEN LET dev == Split(s.devices_list[s.selected_row])[1]
             s1 == [s EXCEPT !.current_device = dev]
             s2 == cli_log(s1, "INFO", "Device selected", dev)
         IN  append_log(s2, "Selected device", dev, TRUE, FALSE)
    ELSE s

\* QListWidget.clear(): the selection is cleared first, and a selection that
\* changes emits itemSelectionChanged, which runs on_device_selected.
ListClear(s) ==
    LET s1 == [s EXCEPT !.selected_row = 0]
        s2 == IF s.selected_row # 0 THEN on_device_selected(s1) ELSE s1
    IN  [s2 EXCEPT !.devices_list = <<>>]

\* The text of the item read_output adds: f"{serial}  [{state}]".
ItemText(serial, state) == serial \o <<" ", " ", "[">> \o state \o <<"]">>

(***************************************************************************)
(* Requests.                                                               *)
(***************************************************************************)

\* AdbGui.adb_devices()
adb_devices(s, w) ==
    LET s1 == cli_log(s, "DEBUG", "Refreshing device list", <<>>)
    IN  run_adb(ListClear(s1), <<S_devices>>, w)

\* AdbGui.adb_connect(): text is self.addr_input.text().
adb_connect(s, text, w) ==
    LET addr == Strip(text)
        s1 == cli_log(s, "DEBUG", "Connect requested", addr)
    IN  IF addr # <<>>
        THEN adb_devices(run_adb(s1, <<S_connect, addr>>, w), w)
        ELSE s1

\* AdbGui.adb_uninstall(): text is self.pkg_input.text().
adb_uninstall(s, text, w) ==
    LET pkg == Strip(text)
        s1 == cli_log(s, "DEBUG", "Uninstall requested", pkg)
    IN  IF pkg # <<>>
        THEN run_adb(s1, <<S_uninstall, pkg>>, w)
        ELSE s1

(***************************************************************************)
(* APK / bundle install.                                                   *)
(***************************************************************************)

\* The name tempfile.mkdtemp gives directory n.
DirPath(n) == <<"t", Ascii[Ord("0") + n]>>

\* A directory number mkdtemp can use: no existing directory has it.
FreshDir(d) == CHOOSE n \in 1..(Cardinality(d) + 1) : n \notin d

\* os.sep
Sep(h) == IF h.platform = "win32" THEN "\\" ELSE "/"

\* str(temp_dir / rel): the path of an extracted entry, with the host's separator.
FullPath(h, n, rel) ==
    DirPath(n) \o <<Sep(h)>> \o [i \in 1..Len(rel) |-> IF rel[i] = "/" THEN Sep(h) ELSE rel[i]]

\* Whether rglob("*.apk") yields the entry: its name ends in ".apk", compared
\* without regard to case on win32 and exactly elsewhere.
MatchesApk(h, rel) ==
    LET name == PathName(rel)
    IN  EndsWith(IF h.platform = "win32" THEN Lower(name) ELSE name, S_apk)

\* ApkFiles with glob in place of rglob: the files at the top of the directory only.
ApkFilesTopLevel(h, n, entries) ==
    Sorted({FullPath(h, n, rel) :
              rel \in {e \in entries : MatchesApk(h, e) /\ LastIndexOf(e, "/") = 0}})

\* sorted(str(p) for p in self.temp_dir.rglob("*.apk")) in a directory
\* holding the given entries.
ApkFiles(h, n, entries) ==
    Sorted({FullPath(h, n, rel) : rel \in {e \in entries : MatchesApk(h, e)}})

\* InstallExtracted that deletes the directory when it holds no package file.
InstallExtractedCleaningUp(s, apk_files, w) ==
    LET s1 == cli_log(s, "DEBUG", "APK files found", apk_files)
    IN  IF apk_files = <<>>
        THEN LET s2 == cli_log(append_log(s1, "ERROR: No APK files found", <<>>, FALSE, TRUE),
                               "ERROR", "No APK files found in bundle", <<>>)
             IN  [s2 EXCEPT !.disk = @ \ {s.temp_dir}]
        ELSE run_adb(s1, <<S_install_multiple, S_dash_r>> \o apk_files, w)

\* The rest of install_bundle, once the archive is extracted (lines 223-231).
InstallExtracted(s, apk_files, w) ==
    LET s1 == cli_log(s, "DEBUG", "APK files found", apk_files)
    IN  IF apk_files = <<>>
        THEN cli_log(append_log(s1, "ERROR: No APK files found", <<>>, FALSE, TRUE),
                     "ERROR", "No APK files found in bundle", <<>>)
        ELSE run_adb(s1, <<S_install_multiple, S_dash_r>> \o apk_files, w)

\* AdbGui.install_bundle(archive_path). zipfile.ZipFile raises BadZipFile on
\* a file it cannot read as an archive; nothing in the source catches it.
install_bundle(s, file, w) ==
    LET s1 == cli_log(s, "DEBUG", "Extracting bundle", file.path)
        s2 == append_log(s1, "Extracting bundle...", <<>>, TRUE, FALSE)
        d  == FreshDir(s.disk)
        s3 == [s2 EXCEPT !.temp_dir = d, !.disk = @ \cup {d}]
        s4 == cli_log(s3, "DEBUG", "Temporary directory created", DirPath(d))
    IN  IF file.zip # "ok"
        THEN [s4 EXCEPT !.raised = "BadZipFile"]
        ELSE InstallExtracted(s4, ApkFiles(s.host, d, file.entries), w)

\* AdbGui.install_auto(): file is what self.apk_input.text() names.
install_auto(s, file, w) ==
    LET s1 == cli_log(s, "DEBUG", "Install requested", file.path)
        suffix == Lower(PathSuffix(file.path))
    IN  IF ~file.exists
        THEN cli_log(s1, "ERROR", "Selected file does not exist", <<>>)
        ELSE IF suffix = S_apk
        THEN run_adb(s1, <<S_install, S_dash_r, file.path>>, w)
        ELSE IF suffix \in {S_xapk, S_apkm}
        THEN install_bundle(s1, file, w)
        ELSE s1

(***************************************************************************)
(* QProcess output and completion.                                         *)
(***************************************************************************)

\* AddDevices that takes a line for a device only when it has more than two tokens.
RECURSIVE AddDevicesWantingThree(_, _)
AddDevicesWantingThree(s, lines) ==
    IF lines = <<>> THEN s
    ELSE LET parts == Split(Head(lines))
             s1 == IF Len(parts) > 2
                   THEN LET item == ItemText(parts[1], parts[2])
                            s2 == cli_log(s, "INFO", "Device detected", item)
                        IN  [s2 EXCEPT !.devices_list = Append(@, item)]
                   ELSE s
         IN  AddDevicesWantingThree(s1, Tail(lines))

\* AddDevices that gives up at the first line with fewer than two tokens.
RECURSIVE AddDevicesStoppingAtShortLine(_, _)
AddDevicesStoppingAtShortLine(s, lines) ==
    IF lines = <<>> THEN s
    ELSE LET parts == Split(Head(lines))
         IN  IF Len(parts) >= 2
             THEN LET item == ItemText(parts[1], parts[2])
                      s2 == cli_log(s, "INFO", "Device detected", item)
                  IN  AddDevicesStoppingAtShortLine(
                          [s2 EXCEPT !.devices_list = Append(@, item)], Tail(lines))
             ELSE s

\* The loop of read_output over the lines after the first (lines 246-251).
RECURSIVE AddDevices(_, _)
AddDevices(s, lines) ==
    IF lines = <<>> THEN s
    ELSE LET parts == Split(Head(lines))
             s1 == IF Len(parts) >= 2
                   THEN LET item == ItemText(parts[1], parts[2])
                            s2 == cli_log(s, "INFO", "Device detected", item)
                        IN  [s2 EXCEPT !.devices_list = Append(@, item)]
                   ELSE s
         IN  AddDevices(s1, Tail(lines))

\* The stdout branch of read_output (lines 240-253).
ReadStdout(s, out) ==
    LET s1 == cli_log(s, "DEBUG", "STDOUT", RStrip(out))
    IN  IF Contains(out, S_header)
        THEN AddDevices(ListClear(s1), Tail(SplitLines(Strip(out))))
        ELSE append_log(s1, "", Strip(out), FALSE, FALSE)

\* AdbGui.read_output(): out and err are what readAllStandardOutput and
\* readAllStandardError return, decoded.
read_output(s, out, err) ==
    LET s1 == IF out # <<>> THEN ReadStdout(s, out) ELSE s
    IN  IF err # <<>>
        THEN append_log(cli_log(s1, "WARNING", "STDERR", RStrip(err)), "", Strip(err), FALSE, TRUE)
        ELSE s1

\* on_process_finished that raises on a non-zero exit code.
on_process_finished_raising(s, code) ==
    IF code # 0
    THEN [s EXCEPT !.raised = "RuntimeError"]
    ELSE cli_log(s, "DEBUG", "ADB process finished", <<code>>)

\* AdbGui.on_process_finished(code, status)
on_process_finished(s, code) ==
    cli_log(s, "DEBUG", "ADB process finished", <<code>>)

\* QProcess when its process has exited: it detaches and is NotRunning
\* before it emits finished.
QProcessExited(s) ==
    [s EXCEPT !.process_state = "NotRunning",
              !.process_pid = 0,
              !.os_procs = {p \in @ : p.pid # s.process_pid}]

(***************************************************************************)
(* Shutdown.                                                               *)
(***************************************************************************)

\* AdbGui.closeEvent(event). rm_ok: whether shutil.rmtree can delete the
\* directory; when it cannot it raises OSError, which nothing catches.
closeEvent(s, rm_ok) ==
    LET s1 == cli_log(s, "DEBUG", "Application closing", <<>>)
    IN  IF s1.temp_dir # NoDir /\ s1.temp_dir \in s1.disk
        THEN LET s2 == cli_log(s1, "DEBUG", "Removing temp directory", DirPath(s1.temp_dir))
             IN  IF rm_ok
                 THEN [s2 EXCEPT !.disk = @ \ {s2.temp_dir}, !.close_accepted = TRUE]
                 ELSE [s2 EXCEPT !.raised = "OSError"]
        ELSE [s1 EXCEPT !.close_accepted = TRUE]

(***************************************************************************)
(* Actions: the events of the Qt event loop.                               *)
(***************************************************************************)

Init ==
    /\ host \in Hosts
    /\ temp_dir = NoDir
    /\ current_device = None
    /\ devices_list = <<>>
    /\ selected_row = 0
    /\ process_state = "NotRunning"
    /\ process_args = <<>>
    /\ process_pid = 0
    /\ process_error = "UnknownError"
    /\ out_rest = <<>>
    /\ out_read = <<>>
    /\ err_rest = <<>>
    /\ os_procs = {}
    /\ disk = {}
    /\ log = <<>>
    /\ cli = <<>>
    /\ raised = "none"
    /\ event = "none"
    /\ closed = FALSE
    /\ close_accepted = FALSE

\* The Connect button.
Connect ==
    /\ ~closed
    /\ \E text \in Addresses, w \in Worlds : Commit(adb_connect(Cur, text, w))
    /\ event' = "Connect"

\* The Refresh Devices button.
RefreshDevices ==
    /\ ~closed
    /\ \E w \in ListingWorlds : Commit(adb_devices(Cur, w))
    /\ event' = "RefreshDevices"

\* The Uninstall button.
Uninstall ==
    /\ ~closed
    /\ \E text \in Packages, w \in ReplyWorlds : Commit(adb_uninstall(Cur, text, w))
    /\ event' = "Uninstall"

\* install_auto hands the file to install_bundle, which makes a directory.
IsBundle(file) == file.exists /\ Lower(PathSuffix(file.path)) \in {S_xapk, S_apkm}

\* The Install button, with the file apk_input names. A bundle is installed
\* only while fewer than MaxDirs temporary directories exist.
Install ==
    /\ ~closed
    /\ \E file \in Files, w \in ReplyWorlds :
          /\ IsBundle(file) => Cardinality(disk) < MaxDirs
          /\ Commit(install_auto(Cur, file, w))
    /\ event' = "Install"

\* The user selects another row of the device list.
SelectDevice ==
    /\ ~closed
    /\ \E row \in 1..Len(devices_list) :
          /\ row # selected_row
          /\ Commit(on_device_selected([Cur EXCEPT !.selected_row = row]))
    /\ event' = "SelectDevice"

\* The start-up notification of the process: started is emitted, or the
\* start has failed: errorOccurred is emitted, which no slot is connected
\* to, so no handler runs and log and cli stay those of the request.
ProcessStarted ==
    /\ process_state = "Starting"
    /\ IF process_pid # 0
       THEN Commit(cli_log([Cur EXCEPT !.process_state = "Running"],
                           "DEBUG", "ADB process started", <<>>))
       ELSE /\ process_state' = "NotRunning"
            /\ process_error' = "FailedToStart"
            /\ UNCHANGED << host, temp_dir, current_device, devices_list, selected_row,
                            process_args, process_pid, out_rest, out_read, err_rest,
                            os_procs, disk, log, cli, raised, closed, close_accepted >>
    /\ event' = "ProcessStarted"

\* The sizes of the next piece of a stream a read can find: nothing, all of
\* it, or a multiple of ChunkUnit characters.
ChunkSizes(rest) == {n \in 0..Len(rest) : n = Len(rest) \/ n % ChunkUnit = 0}

\* readyReadStandardOutput / readyReadStandardError: the process has
\* delivered the next no characters of stdout and ne of stderr.
ReadOutput ==
    /\ process_state = "Running"
    /\ \E no \in ChunkSizes(out_rest), ne \in ChunkSizes(err_rest) :
          /\ no + ne > 0
          /\ Commit(read_output([Cur EXCEPT !.out_rest = DropFirst(@, no),
                                            !.out_read = @ \o TakeFirst(out_rest, no),
                                            !.err_rest = DropFirst(@, ne)],
                                TakeFirst(out_rest, no), TakeFirst(err_rest, ne)))
    /\ event' = "ReadOutput"

\* The process exits, all of its output read: finished is emitted.
ProcessFinished ==
    /\ process_state = "Running"
    /\ out_rest = <<>> /\ err_rest = <<>>
    /\ \E code \in ExitCodes : Commit(on_process_finished(QProcessExited(Cur), code))
    /\ event' = "ProcessFinished"

\* The window is closed. A QCloseEvent is created accepted, so the window
\* closes whether or not closeEvent reaches event.accept().
Close ==
    /\ ~closed
    /\ \E rm_ok \in BOOLEAN : Commit([closeEvent(Cur, rm_ok) EXCEPT !.closed = TRUE])
    /\ event' = "Close"

\* The application exits: destroying the QProcess kills its process.
AppExit ==
    /\ closed
    /\ process_state # "NotRunning"
    /\ Commit(QProcessExited(Cur))
    /\ event' = "AppExit"

Next ==
    \/ Connect
    \/ RefreshDevices
    \/ Uninstall
    \/ Install
    \/ SelectDevice
    \/ ProcessStarted
    \/ ReadOutput
    \/ ProcessFinished
    \/ Close
    \/ AppExit

Spec == Init /\ [][Next]_vars

(***************************************************************************)
(* The output parser on its own: a refresh, requested in the initial       *)
(* state, whose `adb devices` prints any output of a family, read in       *)
(* pieces.                                                                 *)
(***************************************************************************)

\* Lines `adb devices` can print below the header. A device is its serial
\* and its state, separated by whitespace (adb writes a tab); ok tells
\* whether the line is one.
ListedLines ==
    { [text |-> <<"A","\t","d","e","v","i","c","e">>, ok |-> TRUE,
       serial |-> <<"A">>, state |-> <<"d","e","v","i","c","e">>],
      [text |-> <<"B"," ","o","f","f","l","i","n","e">>, ok |-> TRUE,
       serial |-> <<"B">>, state |-> <<"o","f","f","l","i","n","e">>],
      [text |-> <<"b","a","d">>, ok |-> FALSE, serial |-> <<>>, state |-> <<>>] }

\* Most lines below the header.
MaxLines == 3

\* Blank lines `adb devices` may end its output with.
TrailingBlanks == {0, 1}

\* What adb may print on stdout before the header: nothing, or, when it has
\* to start its server, a line about the daemon (older adb releases write
\* "* daemon started successfully *" to stdout).
Preambles ==
    { <<>>, <<"*"," ","d","a","e","m","o","n"," ","s","t","a","r","t","e","d","\n">> }

SeqsUpTo(S, n) == UNION {[1..k -> S] : k \in 0..n}

RECURSIVE JoinLines(_)
JoinLines(ls) ==
    IF ls = <<>> THEN <<>> ELSE Head(ls).text \o <<"\n">> \o JoinLines(Tail(ls))

\* The header, the lines, and k blank lines.
ListingText(ls, k) == S_header \o <<"\n">> \o JoinLines(ls) \o [i \in 1..k |-> "\n"]

ParseOutputs ==
    { pre \o ListingText(ls, k) :
        pre \in Preambles, ls \in SeqsUpTo(ListedLines, MaxLines), k \in TrailingBlanks }

\* The session as AdbGui.__init__ leaves it on host h.
InitialState(h) ==
    [ host |-> h, temp_dir |-> NoDir, current_device |-> None,
      devices_list |-> <<>>, selected_row |-> 0,
      process_state |-> "NotRunning", process_args |-> <<>>,
      process_pid |-> 0, process_error |-> "UnknownError", out_rest |-> <<>>,
      out_read |-> <<>>, err_rest |-> <<>>,
      os_procs |-> {}, disk |-> {}, log |-> <<>>, cli |-> <<>>,
      raised |-> "none", closed |-> FALSE, close_accepted |-> FALSE ]

\* The session is in state s.
Holds(s) ==
    /\ host = s.host
    /\ temp_dir = s.temp_dir
    /\ current_device = s.current_device
    /\ devices_list = s.devices_list
    /\ selected_row = s.selected_row
    /\ process_state = s.process_state
    /\ process_args = s.process_args
    /\ process_pid = s.process_pid
    /\ process_error = s.process_error
    /\ out_rest = s.out_rest
    /\ out_read = s.out_read
    /\ err_rest = s.err_rest
    /\ os_procs = s.os_procs
    /\ disk = s.disk
    /\ log = s.log
    /\ cli = s.cli
    /\ raised = s.raised
    /\ closed = s.closed
    /\ close_accepted = s.close_accepted

\* adb_devices() has run in the initial state and its process has started.
ParseInit ==
    \E h \in {x \in Hosts : x.runnable}, o \in ParseOutputs :
        LET w == [listing |-> o, reply |-> CHOOSE r \in Replies : TRUE]
            s == adb_devices(InitialState(h), w)
        IN  /\ Holds(cli_log([s EXCEPT !.process_state = "Running", !.log = <<>>, !.cli = <<>>],
                              "DEBUG", "ADB process started", <<>>))
            /\ event = "ProcessStarted"

ParseNext ==
    \/ ReadOutput
    \/ ProcessFinished

SpecParse == ParseInit /\ [][ParseNext]_vars

(***************************************************************************)
(* Bundle installs on their own: the archives that hold any of a pool of   *)
(* files.                                                                  *)
(***************************************************************************)

\* Files an archive may hold: package files at the top and one and two
\* directories down, and a file that is no package.
EntryPool ==
    << <<"b","/","l","/","x",".","a","p","k">>,
       <<"a","/","y",".","a","p","k">>,
       <<"a",".","a","p","k">>,
       <<"m",".","t","x","t">> >>

\* One .xapk archive for each choice of files from the pool, named after the choice.
Bundles ==
    { [path |-> mask \o S_xapk, exists |-> TRUE, zip |-> "ok",
       entries |-> {EntryPool[i] : i \in {j \in 1..Len(EntryPool) : mask[j] = "1"}}] :
        mask \in [1..Len(EntryPool) -> {"0", "1"}] }

BundleInit ==
    /\ \E h \in Hosts : Holds(InitialState(h))
    /\ event = "none"

\* The Install button, with one of the archives in apk_input.
InstallBundle ==
    /\ ~closed
    /\ \E file \in Bundles, w \in ReplyWorlds :
          /\ Cardinality(disk) < MaxDirs
          /\ Commit(install_auto(Cur, file, w))
    /\ event' = "Install"

BundleNext ==
    \/ InstallBundle
    \/ ProcessStarted
    \/ ReadOutput
    \/ ProcessFinished

SpecBundle == BundleInit /\ [][BundleNext]_vars

(***************************************************************************)
(* Vocabulary of the properties.                                           *)
(***************************************************************************)

\* The command lines the last handler echoed to the log, in order.
EchoedCmds(entries) ==
    LET idx == {i \in 1..Len(entries) : entries[i].text = "$ adb"}
    IN  {entries[i].arg : i \in idx}

HasErrorEntry(entries) == \E i \in 1..Len(entries) : entries[i].style = "error"

HasCliLevel(records, level) == \E i \in 1..Len(records) : records[i].level = level

\* The last handler logged that the process finished with the exit code.
LoggedExit(records, code) ==
    \E i \in 1..Len(records) :
        records[i].msg = "ADB process finished" /\ records[i].arg = <<code>>

\* The events that are requests to run adb.
Requests == {"Connect", "RefreshDevices", "Uninstall", "Install"}

\* The command line names a file inside temporary directory n.
RefersTo(args, n) ==
    \E i \in 1..Len(args) :
        /\ Len(args[i]) > Len(DirPath(n))
        /\ TakeFirst(args[i], Len(DirPath(n))) = DirPath(n)
        /\ args[i][Len(DirPath(n)) + 1] \in {"/", "\\"}

\* The serial an item of the device list shows.
ItemSerial(text) == Split(text)[1]

(***************************************************************************)
(* C1. At most one temporary workspace is live at any time: a bundle       *)
(* install that starts while the directory of a prior one still exists     *)
(* releases that directory.                                                *)
(***************************************************************************)
C1_AtMostOneWorkspace == Cardinality(disk) <= 1

(***************************************************************************)
(* C2. At most one adb process is in flight at a time: a connect, refresh, *)
(* install or uninstall request that arrives while a process is alive      *)
(* starts no second process and leaves the live one, and the QProcess      *)
(* attached to it, as they were.                                           *)
(***************************************************************************)
C2_RequestKeepsProcess ==
    (os_procs # {} /\ event' \in Requests)
        => /\ os_procs' = os_procs
           /\ process_pid' = process_pid
           /\ process_state' = process_state
           /\ process_args' = process_args
           /\ out_rest' = out_rest
           /\ err_rest' = err_rest

\* C2: at most one adb process is alive in every state, and no request step
\* touches a live process or the QProcess attached to it.
C2_OneProcessInFlight ==
    /\ [](Cardinality(os_procs) <= 1)
    /\ [][C2_RequestKeepsProcess]_vars

\* A request was echoed while a process with another command line is alive.
C2_Witness ==
    /\ event \in Requests
    /\ process_state = "Running"
    /\ \E p \in os_procs : p.pid = process_pid /\ p.args \notin EchoedCmds(log)
    /\ EchoedCmds(log) # {}

(***************************************************************************)
(* C3. A temporary workspace is deleted only when no install process that  *)
(* reads from it is in flight: every directory a live process was given    *)
(* files of still exists.                                                  *)
(***************************************************************************)
C3_NoDeleteWhileInstalling ==
    \A p \in os_procs : \A n \in 1..(MaxDirs + 1) : RefersTo(p.args, n) => n \in disk

(***************************************************************************)
(* C4. The command line never scopes `devices` or `connect` to a device,   *)
(* even with a device selected; it prefixes install, install-multiple and  *)
(* uninstall with -s <selected serial> when a device is selected, and with *)
(* nothing when none is.                                                   *)
(***************************************************************************)
C4_Scoped(cmd) ==
    IF cmd[1] \in {S_devices, S_connect} THEN TRUE
    ELSE IF current_device = None
    THEN cmd[1] \in {S_install, S_install_multiple, S_uninstall}
    ELSE /\ Len(cmd) >= 3
         /\ cmd[1] = S_dash_s
         /\ cmd[2] = current_device
         /\ cmd[3] \in {S_install, S_install_multiple, S_uninstall}

\* C4: every command line a request handler echoes is scoped as C4_Scoped says.
C4_CommandScoping ==
    event \in Requests => \A cmd \in EchoedCmds(log) : C4_Scoped(cmd)

\* With a device selected, a connect request echoed an unscoped connect and
\* an unscoped devices; or an install-multiple was echoed scoped.
C4_Witness ==
    /\ current_device # None
    /\ event = "Connect"
    /\ \E cmd \in EchoedCmds(log) : cmd[1] = S_connect
    /\ \E cmd \in EchoedCmds(log) : cmd[1] = S_devices

(***************************************************************************)
(* C5. After a completed refresh whose listing does not show the selected  *)
(* serial, no device is selected.                                          *)
(***************************************************************************)
C5_SelectionClearedOnRefresh ==
    (/\ event = "ProcessFinished"
     /\ process_args = <<S_devices>>
     /\ \A i \in 1..Len(SplitLines(out_read)) :
           Split(SplitLines(out_read)[i]) = <<>>
           \/ Split(SplitLines(out_read)[i])[1] # current_device)
        => current_device = None

(***************************************************************************)
(* C6. A process that exits with a non-zero code raises nothing: the exit  *)
(* is logged, the QProcess is NotRunning again, and the next request that  *)
(* runs adb starts its process.                                            *)
(***************************************************************************)
\* The step in which the attached process exits while the window is open.
C6_ExitLogged ==
    (process_state = "Running" /\ process_state' = "NotRunning" /\ ~closed')
        => /\ raised' = "none"
           /\ \E code \in ExitCodes : LoggedExit(cli', code)
           /\ os_procs' = {}

\* The request handled right after a non-zero exit starts the first command it echoes.
C6_NextRequestStarts ==
    (/\ event = "ProcessFinished"
     /\ \E code \in ExitCodes \ {0} : LoggedExit(cli, code)
     /\ event' \in Requests
     /\ EchoedCmds(log') # {})
        => /\ process_state' = "Starting"
           /\ process_args' \in EchoedCmds(log')
           /\ \E p \in os_procs' : p.pid = process_pid' /\ p.args = process_args'

\* C6: every exit of the attached process is logged without raising and leaves
\* the QProcess NotRunning; the request after a non-zero exit starts its process.
C6_NonZeroExitReturnsToIdle == [][C6_ExitLogged /\ C6_NextRequestStarts]_vars

\* A process has just exited with code 1.
C6_Witness ==
    /\ event = "ProcessFinished"
    /\ LoggedExit(cli, 1)
    /\ process_state = "NotRunning"
    /\ raised = "none"

(***************************************************************************)
(* C7. An install request for a bundle that cannot be read as an archive   *)
(* reports an error entry, launches no process and lets no exception       *)
(* escape.                                                                 *)
(***************************************************************************)
\* The last handler was an install request for an existing bundle file.
BundleRequested(f) ==
    /\ event = "Install"
    /\ cli[1].arg = f.path
    /\ IsBundle(f)

C7_CorruptBundleReported ==
    \A f \in Files :
        (BundleRequested(f) /\ f.zip = "corrupt")
            => /\ raised = "none"
               /\ HasErrorEntry(log)
               /\ EchoedCmds(log) = {}

(***************************************************************************)
(* C8. An install request for a bundle that extracts no file named *.apk   *)
(* (in any letter case) reports an error entry, launches no process, and   *)
(* leaves the directory it extracted into on disk.                         *)
(***************************************************************************)
\* The bundle holds no package file, however the extension is cased.
NoPackageFiles(f) ==
    f.zip = "ok" /\ \A e \in f.entries : ~EndsWith(Lower(PathName(e)), S_apk)

C8_Step ==
    \A f \in Files :
        (/\ event' = "Install" /\ cli'[1].arg = f.path
         /\ IsBundle(f)
         /\ NoPackageFiles(f))
            => /\ HasErrorEntry(log')
               /\ EchoedCmds(log') = {}
               /\ os_procs' = os_procs
               /\ process_state' = process_state
               /\ raised' = "none"
               /\ temp_dir' \notin disk
               /\ disk' = disk \cup {temp_dir'}

\* C8: every install step of a bundle without package files reports an error,
\* starts nothing and keeps the new directory.
C8_EmptyBundleIsError == [][C8_Step]_vars

\* An install of the bundle that holds only m.txt has just been handled.
C8_Witness ==
    \E f \in Files :
        /\ BundleRequested(f) /\ NoPackageFiles(f)
        /\ HasErrorEntry(log)
        /\ temp_dir \in disk

(***************************************************************************)
(* C9. On a close request the temporary workspace is released best-effort: *)
(* a directory that cannot be deleted is logged, nothing is raised, and    *)
(* the close event is accepted.                                            *)
(***************************************************************************)
C9_CloseNeverRaises ==
    event = "Close" => (raised = "none" /\ close_accepted)

(***************************************************************************)
(* C10. When adb cannot be located or launched, the failure is reported    *)
(* (an error-level record or entry) and the QProcess is NotRunning again,  *)
(* ready for the next request.                                             *)
(***************************************************************************)
C10_LaunchFailureReported ==
    process_error = "FailedToStart"
        => /\ process_state = "NotRunning"
           /\ (HasCliLevel(cli, "ERROR") \/ HasErrorEntry(log))

(***************************************************************************)
(* C11. A read of the whole of a device listing - the header, then N       *)
(* lines each a serial and a state, then any blank lines - leaves in the   *)
(* device list exactly the N devices, in order, each with its serial and   *)
(* its state.                                                              *)
(***************************************************************************)
DevicesOf(ls) == [i \in 1..Len(ls) |-> ItemText(ls[i].serial, ls[i].state)]

C11_Step ==
    \A ls \in SeqsUpTo({l \in ListedLines : l.ok}, MaxLines), k \in TrailingBlanks :
        (out_read = <<>> /\ event' = "ReadOutput" /\ out_read' = ListingText(ls, k))
            => devices_list' = DevicesOf(ls)

C11_ListingYieldsItsDevices == [][C11_Step]_vars

\* Two devices and a blank line, read in one piece.
C11_Witness ==
    /\ event = "ReadOutput"
    /\ cli[1].arg = RStrip(out_read)
    /\ \E ls \in SeqsUpTo({l \in ListedLines : l.ok}, MaxLines) :
          /\ Len(ls) = 2
          /\ out_read = ListingText(ls, 1)
          /\ devices_list = DevicesOf(ls)

(***************************************************************************)
(* C12. Parsing is incremental-safe: once all of an output has been read,  *)
(* the device list is the one a single read of the whole output leaves,    *)
(* however the output was split into pieces.                               *)
(***************************************************************************)
C12_SplitIndependent ==
    (out_rest = <<>> /\ out_read # <<>>)
        => devices_list = ReadStdout(InitialState(host), out_read).devices_list

(***************************************************************************)
(* C13. A line below the header with fewer than two tokens is skipped and  *)
(* does not stop the parse: a read of the whole of a listing that has      *)
(* such lines raises nothing and leaves in the device list the devices of  *)
(* all the other lines, those before and those after, in order.            *)
(***************************************************************************)
IsDeviceLine(l) == l.ok

C13_Step ==
    \A ls \in SeqsUpTo(ListedLines, MaxLines), k \in TrailingBlanks :
        (/\ \E i \in 1..Len(ls) : ~ls[i].ok
         /\ out_read = <<>> /\ event' = "ReadOutput" /\ out_read' = ListingText(ls, k))
            => /\ devices_list' = DevicesOf(SelectSeq(ls, IsDeviceLine))
               /\ raised' = "none"

C13_ShortLineSkipped == [][C13_Step]_vars

\* A device, a line of one token, another device: read in one piece.
C13_Witness ==
    /\ event = "ReadOutput"
    /\ cli[1].arg = RStrip(out_read)
    /\ \E ls \in SeqsUpTo(ListedLines, MaxLines), k \in TrailingBlanks :
          /\ Len(ls) = 3 /\ ls[1].ok /\ ~ls[2].ok /\ ls[3].ok
          /\ out_read = ListingText(ls, k)
          /\ Len(devices_list) = 2

(***************************************************************************)
(* C14. A bundle that holds package files at several depths: the           *)
(* install-multiple command lists the full path of every one of them, and  *)
(* of nothing else, each once, in ascending lexicographic order.           *)
(***************************************************************************)
\* The entries of an archive whose name ends in ".apk".
PackageEntries(f) == {e \in f.entries : EndsWith(PathName(e), S_apk)}

C14_Listed(f, cmd) ==
    LET files == DropFirst(cmd, 2)
    IN  /\ Len(cmd) >= 2 /\ cmd[1] = S_install_multiple /\ cmd[2] = S_dash_r
        /\ {files[i] : i \in 1..Len(files)}
              = {FullPath(host, temp_dir, e) : e \in PackageEntries(f)}
        /\ \A i \in 1..(Len(files) - 1) : StrLess(files[i], files[i + 1])

C14_AllPackagesInOrder ==
    \A f \in Bundles :
        (event = "Install" /\ cli[1].arg = f.path /\ PackageEntries(f) # {})
            => \E cmd \in EchoedCmds(log) : C14_Listed(f, cmd)

\* The archive with package files at three depths has been installed.
C14_Witness ==
    /\ event = "Install"
    /\ \E f \in Bundles :
          /\ cli[1].arg = f.path
          /\ Cardinality(PackageEntries(f)) = 3
          /\ \E cmd \in EchoedCmds(log) : Len(cmd) = 5 /\ C14_Listed(f, cmd)
    /\ process_state = "Starting"

(***************************************************************************)
(* C15. The package extension is recognised whatever its case: every       *)
(* extracted file whose name ends in .apk, .APK or .Apk is passed to the   *)
(* install-multiple command.                                               *)
(***************************************************************************)
C15_AnyCaseIsPackage ==
    \A f \in Files :
        (event = "Install" /\ cli[1].arg = f.path /\ IsBundle(f) /\ f.zip = "ok")
            => \A e \in {x \in f.entries : EndsWith(Lower(PathName(x)), S_apk)} :
                  \E cmd \in EchoedCmds(log) :
                      \E i \in 1..Len(cmd) : cmd[i] = FullPath(host, temp_dir, e)

(***************************************************************************)
(* C16. The selected device changes only when the user selects an item of  *)
(* the device list, and then to the serial of an item the list holds at    *)
(* that moment; a selection event with no item selected - the list being   *)
(* cleared - leaves the selected device as it was.                         *)
(***************************************************************************)
C16_Step ==
    /\ current_device' # current_device
          => /\ event' = "SelectDevice"
             /\ \E i \in 1..Len(devices_list) : ItemSerial(devices_list[i]) = current_device'
    /\ (selected_row # 0 /\ selected_row' = 0) => current_device' = current_device

C16_SelectionFromDeviceSet == [][C16_Step]_vars

\* The user has moved the selection from one listed device to another.
C16_Witness ==
    /\ event = "SelectDevice"
    /\ Len(devices_list) = 2
    /\ selected_row = 2
    /\ current_device = ItemSerial(devices_list[2])
    /\ log[1].arg = current_device

(***************************************************************************)
(* C17. The device list changes only in a read of output that holds the    *)
(* header of a listing; in particular a refresh request that launches no   *)
(* process - the QProcess being busy, or adb not starting - leaves the     *)
(* device list as it was.                                                  *)
(***************************************************************************)
ParsedListing(records) ==
    \E i \in 1..Len(records) :
        records[i].msg = "STDOUT" /\ Contains(records[i].arg, S_header)

C17_Step ==
    /\ devices_list' # devices_list => (event' = "ReadOutput" /\ ParsedListing(cli'))
    /\ (event' = "RefreshDevices" /\ os_procs' = os_procs) => devices_list' = devices_list

C17_OnlyListingChangesDevices == [][C17_Step]_vars

(***************************************************************************)
(* C18. A connect is followed by a refresh of the device list: when the    *)
(* process of a connect command has finished, the `adb devices` that       *)
(* adb_connect asked for is running.                                       *)
(***************************************************************************)
C18_RefreshFollowsConnect ==
    (/\ event = "ProcessFinished"
     /\ Len(process_args) = 2
     /\ process_args[1] = S_connect)
        => \E p \in os_procs : p.args = <<S_devices>>

(***************************************************************************)
(* C19. After a read of output that holds the header of a listing, every   *)
(* item of the device list comes from a line of that output below the      *)
(* header line: neither the header line nor a line above it is recorded    *)
(* as a device.                                                            *)
(***************************************************************************)
C19_OnlyLinesBelowHeader ==
    (event = "ReadOutput" /\ cli # <<>> /\ cli[1].msg = "STDOUT"
                          /\ Contains(cli[1].arg, S_header))
        => LET lines == SplitLines(cli[1].arg)
               h == CHOOSE i \in 1..Len(lines) :
                        /\ Contains(lines[i], S_header)
                        /\ \A j \in 1..(i - 1) : ~Contains(lines[j], S_header)
           IN  \A d \in 1..Len(devices_list) :
                   \E i \in (h + 1)..Len(lines) :
                       /\ Len(Split(lines[i])) >= 2
                       /\ devices_list[d] = ItemText(Split(lines[i])[1], Split(lines[i])[2])

====
